---- MODULE Spec2Model ----
(***************************************************************************)
(* Model of ignition-layout-studio/backend/sandbox/setup.py: the component *)
(* builder create_ignition_component, the plot exporter                    *)
(* save_plot_as_base64 and the data analyzer analyze_industrial_data.      *)
(*                                                                         *)
(* Text.  A Python string is a sequence of pieces whose concatenation is   *)
(* the text.  Column names and component kinds are sequences of single     *)
(* characters (so that lower() and the `in` substring test are computed);  *)
(* a literal of the source is one piece.                                   *)
(***************************************************************************)
EXTENDS Naturals, Sequences, FiniteSets, TLC

VARIABLES
    data,        \* analyzer: the argument of the call
    result,      \* analyzer: outcome of the call (returned value or raised error)
    calls,       \* builder: the calls made so far, each with inputs and returned descriptor
    clock,       \* the wall clock read by pd.Timestamp.now()
    heap,        \* builder: the dict objects, by address
    properties,  \* builder: the caller's properties mapping (key -> address or name)
    components,  \* builder: the descriptors returned, holding addresses
    lastOp,      \* builder: the last step of the caller
    before,      \* builder: what each descriptor showed before the last step
    figs,        \* exporter: pyplot's open figures, the active one last
    exported,    \* exporter: the strings returned so far, newest last
    drawn        \* exporter: TRUE iff a draw happened since the last export

vars == <<data, result, calls, clock, heap, properties, components, lastOp,
          before, figs, exported, drawn>>

analyzerVars == <<data, result>>
aliasVars    == <<heap, properties, components, lastOp, before>>
plotVars     == <<figs, exported, drawn>>

-----------------------------------------------------------------------------
(* Bounds of the model.                                                    *)

MaxCells == 2     \* key/value entries (and rows) of an analyzer input
MaxCalls == 2     \* calls of the component builder
MaxArtists == 2   \* artists drawn on one figure
MaxExports == 2   \* calls of the plot exporter
MaxMutations == 1 \* changes the caller makes to dicts it holds

-----------------------------------------------------------------------------
(* Python text operations.                                                 *)

\* The characters of the model: the printable ASCII and Latin-1 characters
\* (the backquote and the soft hyphen left out) and the basic Greek letters.
\* The capitals among them and, place by place, what str.lower() makes of
\* each
UpperCase ==
    <<"A","B","C","D","E","F","G","H","I","J","K","L","M",
      "N","O","P","Q","R","S","T","U","V","W","X","Y","Z",
      "À","Á","Â","Ã","Ä","Å","Æ","Ç","È","É","Ê","Ë","Ì",
      "Í","Î","Ï","Ð","Ñ","Ò","Ó","Ô","Õ","Ö","Ø","Ù","Ú",
      "Û","Ü","Ý","Þ","Α","Β","Γ","Δ","Ε","Ζ","Η","Θ","Ι",
      "Κ","Λ","Μ","Ν","Ξ","Ο","Π","Ρ","Σ","Τ","Υ","Φ","Χ",
      "Ψ","Ω">>
LowerCase ==
    <<"a","b","c","d","e","f","g","h","i","j","k","l","m",
      "n","o","p","q","r","s","t","u","v","w","x","y","z",
      "à","á","â","ã","ä","å","æ","ç","è","é","ê","ë","ì",
      "í","î","ï","ð","ñ","ò","ó","ô","õ","ö","ø","ù","ú",
      "û","ü","ý","þ","α","β","γ","δ","ε","ζ","η","θ","ι",
      "κ","λ","μ","ν","ξ","ο","π","ρ","σ","τ","υ","φ","χ",
      "ψ","ω">>

\* the characters with the Unicode property Cased
Cased == {UpperCase[i] : i \in 1..Len(UpperCase)}
         \cup {LowerCase[i] : i \in 1..Len(LowerCase)}
         \cup {"ß", "ÿ", "µ", "ª", "º", "ς"}

\* the characters with the Unicode property Case_Ignorable
CaseIgnorable == {"'", ".", ":", "^", "¨", "¯", "´", "·", "¸"}

\* str.lower() on a string of one character
lower_char(c) ==
    IF \E i \in 1..Len(UpperCase) : UpperCase[i] = c
    THEN <<LowerCase[CHOOSE i \in 1..Len(UpperCase) : UpperCase[i] = c]>>
    ELSE <<c>>

\* the capital sigma at place i is in the Final_Sigma context: a cased
\* character comes before it and none after it, case-ignorable characters
\* skipped
final_sigma(s, i) ==
    /\ \E j \in 1..(i - 1) :
          /\ s[j] \in Cased
          /\ \A k \in (j + 1)..(i - 1) : s[k] \in CaseIgnorable
    /\ ~\E j \in (i + 1)..Len(s) :
          /\ s[j] \in Cased /\ s[j] \notin CaseIgnorable
          /\ \A k \in (i + 1)..(j - 1) : s[k] \in CaseIgnorable

\* str.lower()
RECURSIVE lower_from(_, _)
lower_from(s, i) ==
    IF i > Len(s) THEN <<>>
    ELSE (IF s[i] = "Σ" /\ final_sigma(s, i) THEN <<"ς">> ELSE lower_char(s[i]))
         \o lower_from(s, i + 1)

lower(s) == lower_from(s, 1)

\* the `sub in s` substring test
contains(sub, s) ==
    \E i \in 0..Len(s) :
        /\ i + Len(sub) <= Len(s)
        /\ SubSeq(s, i + 1, i + Len(sub)) = sub

kw_temp == <<"t","e","m","p">>
kw_pressure == <<"p","r","e","s","s","u","r","e">>

\* dict.get(key, default)
get(d, key, default) == IF key \in DOMAIN d THEN d[key] ELSE default

\* decimal digits of a natural number
Digit == <<"0","1","2","3","4","5","6","7","8","9">>
RECURSIVE decimal(_)
decimal(n) == IF n < 10 THEN <<Digit[n + 1]>>
              ELSE Append(decimal(n \div 10), Digit[(n % 10) + 1])

\* pd.Timestamp.isoformat(): the text of a clock reading
isoformat(t) == <<"T">> \o decimal(t)

-----------------------------------------------------------------------------
(* create_ignition_component (lines 18-35).  `properties` is None or a     *)
(* mapping; a value taken from it is returned as it is (the caller's own   *)
(* object), a default is the value of a literal evaluated in this call.    *)

None == [py_none |-> TRUE]

create_ignition_component_stamped_name(component_type, props_arg, now) ==
    LET p == IF props_arg = None THEN <<>> ELSE props_arg
    IN  [ type     |-> <<"perspective.">> \o component_type,
          position |-> get(p, "position", [x |-> 0, y |-> 0]),
          size     |-> get(p, "size", [width |-> 100, height |-> 50]),
          props    |-> get(p, "props", <<>>),
          meta     |-> [ name      |-> get(p, "name", component_type \o <<"_">> \o decimal(now)),
                         generated |-> TRUE,
                         timestamp |-> isoformat(now) ] ]

create_ignition_component_validated(component_type, props_arg, now) ==
    LET p == IF props_arg = None THEN <<>> ELSE props_arg
        known == component_type \in {<<"d","i","s","p","l","a","y">>, <<"g","a","u","g","e">>}
    IN  [ type     |-> <<"perspective.">> \o (IF known THEN component_type ELSE <<"unknown">>),
          position |-> get(p, "position", [x |-> 0, y |-> 0]),
          size     |-> get(p, "size", [width |-> 100, height |-> 50]),
          props    |-> get(p, "props", <<>>),
          meta     |-> [ name      |-> get(p, "name", component_type \o <<"_component">>),
                         generated |-> TRUE,
                         timestamp |-> isoformat(now) ] ]

create_ignition_component_all_or_nothing(component_type, props_arg, now) ==
    LET p == IF props_arg = None \/ DOMAIN props_arg # {"position", "size", "props", "name"}
             THEN <<>> ELSE props_arg
    IN  [ type     |-> <<"perspective.">> \o component_type,
          position |-> get(p, "position", [x |-> 0, y |-> 0]),
          size     |-> get(p, "size", [width |-> 100, height |-> 50]),
          props    |-> get(p, "props", <<>>),
          meta     |-> [ name      |-> get(p, "name", component_type \o <<"_component">>),
                         generated |-> TRUE,
                         timestamp |-> isoformat(now) ] ]

create_ignition_component(component_type, props_arg, now) ==
    LET p == IF props_arg = None THEN <<>> ELSE props_arg
    IN  [ type     |-> <<"perspective.">> \o component_type,
          position |-> get(p, "position", [x |-> 0, y |-> 0]),
          size     |-> get(p, "size", [width |-> 100, height |-> 50]),
          props    |-> get(p, "props", <<>>),
          meta     |-> [ name      |-> get(p, "name", component_type \o <<"_component">>),
                         generated |-> TRUE,
                         timestamp |-> isoformat(now) ] ]

-----------------------------------------------------------------------------
(* analyze_industrial_data (lines 47-83).                                  *)
(* An input is a dict (one row), a list of dicts (rows), a DataFrame, a    *)
(* list of values that are no dicts, or a scalar (a number, a string,      *)
(* None).  A row is the sequence of its entries in insertion order, each a *)
(* column name and the kind of its value.                                  *)

ColumnNames == { <<"T","e","m","p","_","1">>,
                 <<"O","i","l","_","P","r","e","s","s","u","r","e">>,
                 <<"t","e","m","p","_","p","r","e","s","s","u","r","e">>,
                 <<"f","l","o","w","_","r","a","t","e">> }

ValueKinds == {"int", "str", "bool"}

\* the types of an input that is neither a dict, nor a list, nor a DataFrame
ScalarTypes == {"int", "float", "str", "NoneType"}

\* the kinds of value pandas stores in a column of a np.number dtype
NumberKinds == {"int", "float"}

keys(row) == {row[i].key : i \in 1..Len(row)}

\* the rows (dicts) with exactly n entries
RowsN[n \in 0..MaxCells] ==
    IF n = 0 THEN {<<>>}
    ELSE UNION { { Append(r, [key |-> k, value |-> v]) :
                       k \in ColumnNames \ keys(r), v \in ValueKinds } :
                 r \in RowsN[n - 1] }

\* the lists of exactly r rows with at most c entries in all
ListsN[r \in 0..MaxCells, c \in 0..MaxCells] ==
    IF r = 0 THEN {<<>>}
    ELSE UNION { UNION { { <<row>> \o rest : row \in RowsN[j] } :
                         rest \in ListsN[r - 1, c - j] } :
                 j \in 0..c }

\* the lists of exactly n values that are no dicts
ValuesN[n \in 0..MaxCells] ==
    IF n = 0 THEN {<<>>}
    ELSE { Append(l, v) : l \in ValuesN[n - 1], v \in ValueKinds }

\* the arguments of analyze_industrial_data; a DataFrame is given by the
\* rows it was made of, one entry fewer than a list may hold
Inputs ==
    { [kind |-> "dict", rows |-> <<row>>] :
          row \in UNION {RowsN[n] : n \in 0..MaxCells} }
    \cup { [kind |-> "list", rows |-> l] :
          l \in UNION {ListsN[r, MaxCells] : r \in 0..MaxCells} }
    \cup { [kind |-> "frame", rows |-> l] :
          l \in UNION {ListsN[r, MaxCells - 1] : r \in 0..(MaxCells - 1)} }
    \cup { [kind |-> "values", rows |-> l] :
          l \in UNION {ValuesN[n] : n \in 1..MaxCells} }
    \cup { [kind |-> "scalar", rows |-> <<>>, py_type |-> t] : t \in ScalarTypes }

\* the value of column c in a row, "NaN" where the row has no such key
cell(row, c) ==
    IF c \in keys(row)
    THEN row[CHOOSE i \in 1..Len(row) : row[i].key = c].value
    ELSE "NaN"

\* the columns of pd.DataFrame(rows): the keys in the order first seen
RECURSIVE union_keys(_, _)
union_keys(cells, seen) ==
    IF cells = <<>> THEN seen
    ELSE union_keys(Tail(cells),
                    IF \E i \in 1..Len(seen) : seen[i] = Head(cells).key
                    THEN seen ELSE Append(seen, Head(cells).key))

RECURSIVE flatten(_)
flatten(rows) == IF rows = <<>> THEN <<>> ELSE Head(rows) \o flatten(Tail(rows))

\* pd.DataFrame(rows) (lines 49-52): the columns and, per column, its values
DataFrame(rows) ==
    LET cols == union_keys(flatten(rows), <<>>)
    IN  [ columns     |-> cols,
          str_columns |-> TRUE,
          values      |-> [c \in {cols[i] : i \in 1..Len(cols)} |->
                              [r \in 1..Len(rows) |-> cell(rows[r], c)]] ]

\* pd.DataFrame(values) (line 52) for a list of values that are no dicts: one
\* column, whose name is the integer 0 (written here as its text, the frame
\* recording that its column names are no strings)
DataFrameOfValues(items) ==
    [ columns     |-> << <<"0">> >>,
      str_columns |-> FALSE,
      values      |-> [c \in { <<"0">> } |-> items] ]

\* data after lines 49-52
to_frame(d) ==
    IF d.kind = "values" THEN DataFrameOfValues(d.rows) ELSE DataFrame(d.rows)

\* the column's dtype is a subtype of np.number: every value present is a
\* number (a missing value is NaN, a float)
is_numeric(df, c) ==
    /\ \A r \in 1..Len(df.values[c]) : df.values[c][r] \in NumberKinds \cup {"NaN"}
    /\ \E r \in 1..Len(df.values[c]) : df.values[c][r] \in NumberKinds

\* data.select_dtypes(include=[np.number]).columns (line 61)
numeric_cols(df) == LET num(c) == is_numeric(df, c) IN SelectSeq(df.columns, num)

\* data.describe().to_dict() (line 55), reduced to the count statistic: the
\* numeric columns when there is one, every column otherwise
describe(df) ==
    LET nc == numeric_cols(df)
        described == IF nc # <<>> THEN nc ELSE df.columns
    IN  [c \in {described[i] : i \in 1..Len(described)} |->
            [count |-> Cardinality({r \in 1..Len(df.values[c]) : df.values[c][r] # "NaN"})]]

binding(col) == <<"{[default]Equipment/">> \o col \o <<"/value}">>

display_for(col, now) ==
    create_ignition_component(<<"d","i","s","p","l","a","y">>,
        [ name  |-> col \o <<"_display">>,
          props |-> [text |-> binding(col), style |-> [color |-> "blue"]] ], now)

gauge_for(col, now) ==
    create_ignition_component(<<"g","a","u","g","e">>,
        [ name  |-> col \o <<"_gauge">>,
          props |-> [value |-> binding(col), min |-> 0, max |-> 100] ], now)

\* one iteration of the loop of lines 62-81 (if / elif)
loop_body_case_sensitive(analysis, col, now) ==
    IF contains(kw_temp, col)
    THEN [analysis EXCEPT
            !.suggestions = Append(@, <<"Temperature monitoring component for ">> \o col),
            !.components = Append(@, display_for(col, now))]
    ELSE IF contains(kw_pressure, col)
    THEN [analysis EXCEPT
            !.suggestions = Append(@, <<"Pressure gauge component for ">> \o col),
            !.components = Append(@, gauge_for(col, now))]
    ELSE analysis

loop_body_prepend(analysis, col, now) ==
    IF contains(kw_temp, lower(col))
    THEN [analysis EXCEPT
            !.suggestions = <<(<<"Temperature monitoring component for ">> \o col)>> \o @,
            !.components = <<display_for(col, now)>> \o @]
    ELSE IF contains(kw_pressure, lower(col))
    THEN [analysis EXCEPT
            !.suggestions = <<(<<"Pressure gauge component for ">> \o col)>> \o @,
            !.components = <<gauge_for(col, now)>> \o @]
    ELSE analysis

loop_body(analysis, col, now) ==
    IF contains(kw_temp, lower(col))
    THEN [analysis EXCEPT
            !.suggestions = Append(@, <<"Temperature monitoring component for ">> \o col),
            !.components = Append(@, display_for(col, now))]
    ELSE IF contains(kw_pressure, lower(col))
    THEN [analysis EXCEPT
            !.suggestions = Append(@, <<"Pressure gauge component for ">> \o col),
            !.components = Append(@, gauge_for(col, now))]
    ELSE analysis

\* the clock as the calls of one run see it: readings[k] is what the k-th
\* pd.Timestamp.now() returns; past the last reading listed, time stands
reading_at(readings, k) ==
    readings[IF k <= Len(readings) THEN k ELSE Len(readings)]

\* the for loop of line 62.  Every create_ignition_component call reads the
\* clock itself (line 31): the call made when k components exist takes the
\* (k+1)-th reading
RECURSIVE for_cols(_, _, _)
for_cols(analysis, cols, readings) ==
    IF cols = <<>> THEN analysis
    ELSE for_cols(loop_body(analysis, Head(cols),
                            reading_at(readings, Len(analysis.components) + 1)),
                  Tail(cols), readings)

returned(v) == [raised |-> "no", value |-> v]
raise(e) == [raised |-> e]

analyze_industrial_data(d, readings) ==
    IF d.kind = "scalar"
    THEN \* lines 49-52 leave data as it is; hasattr(data, 'describe') is false
         \* and line 55 gives {}; line 61 has no select_dtypes to call
         raise("AttributeError")
    ELSE LET df == to_frame(d)
         IN  IF df.columns = <<>>
             THEN \* line 55: describe() of a table without columns
                  raise("ValueError")
             ELSE IF ~df.str_columns /\ numeric_cols(df) # <<>>
             THEN \* line 63: col.lower() of a column name that is an integer
                  raise("AttributeError")
             ELSE returned(for_cols([ summary     |-> describe(df),
                                      suggestions |-> <<>>,
                                      components  |-> <<>> ],
                                    numeric_cols(df), readings))

-----------------------------------------------------------------------------
(* The analyzer as a state machine: a call is pending, then it has ended.  *)

Pending == [raised |-> "pending"]

InitAnalyze ==
    /\ data \in Inputs
    /\ result = Pending
    /\ clock = 0
    /\ calls = <<>>
    /\ heap = <<>> /\ properties = None /\ components = <<>>
    /\ lastOp = [op |-> "none"] /\ before = <<>>
    /\ figs = <<>> /\ exported = <<>> /\ drawn = FALSE

\* the non-decreasing sequences of n clock readings that begin with t
RECURSIVE ReadingsFrom(_, _)
ReadingsFrom(t, n) ==
    IF n <= 1 THEN {<<t>>}
    ELSE { <<t>> \o rest : rest \in UNION {ReadingsFrom(t + dt, n - 1) : dt \in 0..1} }

\* the number of times a call with this input can read the clock: once for
\* each numeric column at most
max_reads(d) ==
    IF d.kind = "scalar" THEN 1 ELSE Len(numeric_cols(to_frame(d)))

\* a call of analyze_industrial_data; time may pass between two readings of
\* the clock, which is left at the last reading taken
Analyze ==
    /\ result = Pending
    /\ \E readings \in ReadingsFrom(clock, max_reads(data)) :
          LET r == analyze_industrial_data(data, readings)
              made == IF r.raised = "no" THEN Len(r.value.components) ELSE 0
          IN  /\ result' = r
              /\ clock' = IF made = 0 THEN clock ELSE reading_at(readings, made)
    /\ UNCHANGED <<data, calls, aliasVars, plotVars>>

NextAnalyze == Analyze

SpecAnalyze == InitAnalyze /\ [][NextAnalyze]_vars

-----------------------------------------------------------------------------
(* Properties of the analyzer.                                             *)

Returned == result # Pending /\ result.raised = "no"
Tabular == data.kind \in {"dict", "list", "frame"}
Table == to_frame(data)
TableColumns == {Table.columns[i] : i \in 1..Len(Table.columns)}
NumericColumns == {c \in TableColumns : is_numeric(Table, c)}

HasTemp(c) == contains(kw_temp, lower(c))
HasPressure(c) == contains(kw_pressure, lower(c))

TempText(c) == <<"Temperature monitoring component for ">> \o c
PressureText(c) == <<"Pressure gauge component for ">> \o c
DisplayName(c) == c \o <<"_display">>
GaugeName(c) == c \o <<"_gauge">>
Binding(c) == <<"{[default]Equipment/">> \o c \o <<"/value}">>

SuggestionsFor(c) ==
    {i \in 1..Len(result.value.suggestions) :
        result.value.suggestions[i] \in {TempText(c), PressureText(c)}}
ComponentsFor(c) ==
    {i \in 1..Len(result.value.components) :
        result.value.components[i].meta.name \in {DisplayName(c), GaugeName(c)}}

IsDisplayFor(comp, c) ==
    /\ comp.type = <<"perspective.", "d","i","s","p","l","a","y">>
    /\ comp.meta.name = DisplayName(c)
    /\ comp.props = [text |-> Binding(c), style |-> [color |-> "blue"]]
IsGaugeFor(comp, c) ==
    /\ comp.type = <<"perspective.", "g","a","u","g","e">>
    /\ comp.meta.name = GaugeName(c)
    /\ comp.props = [value |-> Binding(c), min |-> 0, max |-> 100]

\* C1 as stated: a numeric column whose name contains both 'temp' and
\* 'pressure' contributes exactly two suggestions and two components, one
\* display and one gauge.
C1_BothRulesFire ==
    Returned =>
        \A c \in NumericColumns :
            (HasTemp(c) /\ HasPressure(c)) =>
                /\ Cardinality(SuggestionsFor(c)) = 2
                /\ Cardinality(ComponentsFor(c)) = 2
                /\ \E i \in ComponentsFor(c) : IsDisplayFor(result.value.components[i], c)
                /\ \E i \in ComponentsFor(c) : IsGaugeFor(result.value.components[i], c)

\* C4: a numeric column whose name contains exactly one of the keywords
\* contributes exactly one suggestion and one component: for 'temp' the
\* display named '<column>_display' with the text binding and the blue
\* style, for 'pressure' the gauge named '<column>_gauge' with the value
\* binding, min 0 and max 100.
C4_OneRuleOneComponent ==
    Returned =>
        \A c \in NumericColumns :
            /\ (HasTemp(c) /\ ~HasPressure(c)) =>
                  /\ Cardinality(SuggestionsFor(c)) = 1
                  /\ Cardinality(ComponentsFor(c)) = 1
                  /\ \A i \in ComponentsFor(c) : IsDisplayFor(result.value.components[i], c)
            /\ (HasPressure(c) /\ ~HasTemp(c)) =>
                  /\ Cardinality(SuggestionsFor(c)) = 1
                  /\ Cardinality(ComponentsFor(c)) = 1
                  /\ \A i \in ComponentsFor(c) : IsGaugeFor(result.value.components[i], c)

C4_Witness ==
    /\ Returned
    /\ \E c \in NumericColumns : HasTemp(c) /\ ~HasPressure(c)
    /\ \E c \in NumericColumns : HasPressure(c) /\ ~HasTemp(c)

\* C5 as stated: a column that is not numeric, or whose name contains
\* neither keyword, contributes nothing; and every input (a mapping or a
\* sequence of mappings) in which no numeric column matches a keyword yields
\* a result with empty suggestions and empty components.
C5_NoMatchNoComponent ==
    (Tabular /\ result # Pending) =>
        /\ Returned =>
              \A c \in TableColumns :
                  (c \notin NumericColumns \/ (~HasTemp(c) /\ ~HasPressure(c))) =>
                      SuggestionsFor(c) = {} /\ ComponentsFor(c) = {}
        /\ (\A c \in NumericColumns : ~HasTemp(c) /\ ~HasPressure(c)) =>
              /\ Returned
              /\ result.value.suggestions = <<>>
              /\ result.value.components = <<>>

\* C9 as stated: an input that is neither a mapping, nor a sequence of
\* mappings, nor a table (a number, a string, a list of values that are no
\* mappings) makes the call fail with an error; no analysis result is
\* returned.
C9_NonTabularRaises ==
    (data.kind \in {"scalar", "values"} /\ result # Pending) =>
        /\ result.raised # "no"
        /\ "value" \notin DOMAIN result

ColumnIndex(c) == CHOOSE i \in 1..Len(Table.columns) : Table.columns[i] = c
SuggestionColumns(i) ==
    {c \in TableColumns : result.value.suggestions[i] \in {TempText(c), PressureText(c)}}
ComponentColumns(i) ==
    {c \in TableColumns : result.value.components[i].meta.name \in {DisplayName(c), GaugeName(c)}}

\* C10: in a result, suggestions and components have the same length, the
\* i-th of each refer to the same column, and these columns follow the
\* column order of the table.
C10_ParallelAndOrdered ==
    Returned =>
        /\ Len(result.value.suggestions) = Len(result.value.components)
        /\ \A i \in 1..Len(result.value.components) :
              /\ Cardinality(ComponentColumns(i)) = 1
              /\ SuggestionColumns(i) = ComponentColumns(i)
        /\ \A i, j \in 1..Len(result.value.components) :
              i < j => \A c \in ComponentColumns(i), d \in ComponentColumns(j) :
                           ColumnIndex(c) <= ColumnIndex(d)

C10_Witness ==
    /\ Returned
    /\ data.kind = "list"
    /\ Len(result.value.components) >= 2

-----------------------------------------------------------------------------
(* The component builder called with literal arguments; each call is       *)
(* logged with its inputs, the clock reading and the descriptor returned.  *)

Idle == [kind |-> "none"]

PropertyKeys == {"position", "size", "props", "name"}

SampleValue(k) ==
    CASE k = "position" -> [x |-> 10, y |-> 20]
      [] k = "size"     -> [width |-> 30, height |-> 40]
      [] k = "props"    -> [value |-> 1]
      [] k = "name"     -> <<"m","y">>

\* the properties arguments: None, or a mapping with any subset of the keys
PropertyArgs == {None} \cup { [k \in K |-> SampleValue(k)] : K \in SUBSET PropertyKeys }

Kinds == { <<"g","a","u","g","e">>, <<"n","o"," ","w","i","d","g","e","t">> }

InitBuild ==
    /\ calls = <<>>
    /\ clock = 0
    /\ data = Idle /\ result = Pending
    /\ heap = <<>> /\ properties = None /\ components = <<>>
    /\ lastOp = [op |-> "none"] /\ before = <<>>
    /\ figs = <<>> /\ exported = <<>> /\ drawn = FALSE

\* a call of create_ignition_component; dt is the time passed since the
\* previous reading of the clock
CallBuilder ==
    /\ Len(calls) < MaxCalls
    /\ \E kind \in Kinds, arg \in PropertyArgs, dt \in 0..1 :
          LET now == clock + dt
          IN  /\ clock' = now
              /\ calls' = Append(calls,
                     [ kind |-> kind, properties |-> arg, now |-> now,
                       component |-> create_ignition_component(kind, arg, now) ])
    /\ UNCHANGED <<analyzerVars, aliasVars, plotVars>>

NextBuild == CallBuilder

SpecBuild == InitBuild /\ [][NextBuild]_vars

\* C6: for every kind and every properties argument, None included, the
\* descriptor's type is 'perspective.' followed by the kind as given, and
\* meta.generated is true.
C6_TypeAndGenerated ==
    \A i \in 1..Len(calls) :
        /\ calls[i].component.type = <<"perspective.">> \o calls[i].kind
        /\ calls[i].component.meta.generated = TRUE

C6_Witness ==
    /\ \E i \in 1..Len(calls) :
          calls[i].kind = <<"n","o"," ","w","i","d","g","e","t">> /\ calls[i].properties = None
    /\ \E i \in 1..Len(calls) :
          calls[i].kind = <<"g","a","u","g","e">> /\ calls[i].properties # None

Given(c, k) == c.properties # None /\ k \in DOMAIN c.properties

\* C7: each of position, size, props and name that properties does not hold
\* (or all of them when properties is omitted) gets its default, each one it
\* holds is taken from it unchanged, whatever the other keys.
C7_DefaultsPerKey ==
    \A i \in 1..Len(calls) :
        LET c == calls[i] IN
        /\ c.component.position =
              IF Given(c, "position") THEN c.properties.position ELSE [x |-> 0, y |-> 0]
        /\ c.component.size =
              IF Given(c, "size") THEN c.properties.size ELSE [width |-> 100, height |-> 50]
        /\ c.component.props =
              IF Given(c, "props") THEN c.properties.props ELSE <<>>
        /\ DOMAIN c.component.props =
              IF Given(c, "props") THEN DOMAIN c.properties.props ELSE {}
        /\ c.component.meta.name =
              IF Given(c, "name") THEN c.properties.name ELSE c.kind \o <<"_component">>

C7_Witness ==
    \E i, j \in 1..Len(calls) :
        /\ calls[i].properties # None
        /\ DOMAIN calls[i].properties = {"size", "name"}
        /\ calls[j].properties = None

WithoutTimestamp(comp) == [comp EXCEPT !.meta.timestamp = <<>>]

\* C8: two calls with the same kind and properties at different times return
\* descriptors that differ in meta.timestamp at most.
C8_OnlyTimestampDiffers ==
    \A i, j \in 1..Len(calls) :
        ( /\ calls[i].kind = calls[j].kind
          /\ calls[i].properties = calls[j].properties
          /\ calls[i].now # calls[j].now ) =>
            WithoutTimestamp(calls[i].component) = WithoutTimestamp(calls[j].component)

C8_Witness ==
    \E i, j \in 1..Len(calls) :
        /\ calls[i].kind = calls[j].kind
        /\ calls[i].properties = calls[j].properties
        /\ calls[i].properties # None
        /\ DOMAIN calls[i].properties = {"position"}
        /\ calls[i].now # calls[j].now
        /\ calls[i].component.meta.timestamp # calls[j].component.meta.timestamp

-----------------------------------------------------------------------------
(* The component builder with the caller's dicts as objects.  The heap     *)
(* holds the dicts; the caller's properties mapping and the descriptors    *)
(* hold addresses.  A value create_ignition_component takes from           *)
(* properties is the address the caller holds; a default is a dict literal,*)
(* a new object of the call.                                               *)

DictKeys == <<"position", "size", "props">>

index_of(s, e) == CHOOSE i \in 1..Len(s) : s[i] = e

\* the caller's mapping with the keys K, its dicts allocated in the heap
AllocatedKeys(K) == LET in_K(k) == k \in K IN SelectSeq(DictKeys, in_K)

\* d[k] = v
set_item(d, k, v) == [kk \in DOMAIN d \cup {k} |-> IF kk = k THEN v ELSE d[kk]]

\* what descriptor i shows: its dicts read through their addresses
View(h, comp) ==
    [comp EXCEPT !.position = h[comp.position],
                 !.size = h[comp.size],
                 !.props = h[comp.props]]

Views == [i \in 1..Len(components) |-> View(heap, components[i])]

InitAlias ==
    /\ \E K \in SUBSET PropertyKeys :
          LET a == AllocatedKeys(K)
          IN  /\ heap = [i \in 1..Len(a) |-> SampleValue(a[i])]
              /\ properties = [k \in K |-> IF k = "name" THEN SampleValue(k)
                                            ELSE index_of(a, k)]
    /\ components = <<>>
    /\ lastOp = [op |-> "none", count |-> 0]
    /\ before = <<>>
    /\ clock = 0
    /\ calls = <<>>
    /\ data = Idle /\ result = Pending
    /\ figs = <<>> /\ exported = <<>> /\ drawn = FALSE

\* a call of create_ignition_component with None or the caller's mapping:
\* the dict literals of lines 25-27 that are used become new objects
CallBuilderShared ==
    /\ Len(components) < MaxCalls
    /\ \E kind \in Kinds, arg \in {None, properties}, dt \in 0..1 :
          LET now == clock + dt
              comp == create_ignition_component(kind, arg, now)
              is_new(k) == arg = None \/ k \notin DOMAIN arg
              new == SelectSeq(DictKeys, is_new)
              addr(k) == IF is_new(k) THEN Len(heap) + index_of(new, k) ELSE comp[k]
          IN  /\ clock' = now
              /\ heap' = heap \o [i \in 1..Len(new) |-> comp[new[i]]]
              /\ components' = Append(components,
                     [comp EXCEPT !.position = addr("position"),
                                  !.size = addr("size"),
                                  !.props = addr("props")])
    /\ before' = Views
    /\ lastOp' = [op |-> "build", count |-> lastOp.count]
    /\ UNCHANGED <<properties, calls, analyzerVars, plotVars>>

\* the caller changes a dict through descriptor i: components[i][field]['x'] = 99
MutateComponent ==
    /\ lastOp.count < MaxMutations
    /\ \E i \in 1..Len(components), field \in {"position", "size", "props"} :
          /\ heap' = [heap EXCEPT ![components[i][field]] = set_item(@, "x", 99)]
          /\ lastOp' = [op |-> "mutate_component", count |-> lastOp.count + 1, index |-> i]
    /\ before' = Views
    /\ UNCHANGED <<properties, components, clock, calls, analyzerVars, plotVars>>

\* the caller changes a dict of its mapping: properties[field]['x'] = 99
MutateProperties ==
    /\ lastOp.count < MaxMutations
    /\ \E field \in DOMAIN properties \ {"name"} :
          heap' = [heap EXCEPT ![properties[field]] = set_item(@, "x", 99)]
    /\ lastOp' = [op |-> "mutate_properties", count |-> lastOp.count + 1]
    /\ before' = Views
    /\ UNCHANGED <<properties, components, clock, calls, analyzerVars, plotVars>>

\* the caller puts a new dict into its mapping: properties[field] = {'x': 7}
RebindProperty ==
    /\ lastOp.count < MaxMutations
    /\ \E field \in DOMAIN properties \ {"name"} :
          /\ heap' = Append(heap, [x |-> 7])
          /\ properties' = [properties EXCEPT ![field] = Len(heap) + 1]
    /\ lastOp' = [op |-> "rebind_property", count |-> lastOp.count + 1]
    /\ before' = Views
    /\ UNCHANGED <<components, clock, calls, analyzerVars, plotVars>>

NextAlias == CallBuilderShared \/ MutateComponent \/ MutateProperties \/ RebindProperty

SpecAlias == InitAlias /\ [][NextAlias]_vars

\* C2 as stated: a descriptor is independent of the other descriptors and of
\* the caller's mapping: a call leaves the earlier descriptors as they were,
\* a change made through one descriptor shows in no other descriptor, and a
\* change the caller makes to its properties mapping after the call shows in
\* no descriptor.
C2_DescriptorsIndependent ==
    /\ lastOp.op = "build" =>
          \A j \in 1..Len(before) : Views[j] = before[j]
    /\ lastOp.op = "mutate_component" =>
          \A j \in 1..Len(components) : j # lastOp.index => Views[j] = before[j]
    /\ lastOp.op \in {"mutate_properties", "rebind_property"} =>
          \A j \in 1..Len(components) : Views[j] = before[j]

-----------------------------------------------------------------------------
(* save_plot_as_base64 (lines 37-45).  pyplot keeps the open figures, the  *)
(* active one last; a figure is the sequence of artists drawn on it.       *)

Artists == {"line", "bar"}

PNGSignature == <<137, 80, 78, 71, 13, 10, 26, 10>>

artist_byte(a) == IF a = "line" THEN 1 ELSE 2

\* the PNG bytes savefig writes: the signature, then the image, which
\* stands here as one byte for each artist drawn
png(canvas) == PNGSignature \o [i \in 1..Len(canvas) |-> artist_byte(canvas[i])]

Base64Alphabet ==
    <<"A","B","C","D","E","F","G","H","I","J","K","L","M","N","O","P",
      "Q","R","S","T","U","V","W","X","Y","Z","a","b","c","d","e","f",
      "g","h","i","j","k","l","m","n","o","p","q","r","s","t","u","v",
      "w","x","y","z","0","1","2","3","4","5","6","7","8","9","+","/">>

b64char(n) == Base64Alphabet[n + 1]

\* base64.b64encode(bytes).decode('utf-8')
RECURSIVE b64encode(_)
b64encode(b) ==
    IF Len(b) = 0 THEN <<>>
    ELSE IF Len(b) = 1 THEN
        << b64char(b[1] \div 4), b64char((b[1] % 4) * 16), "=", "=" >>
    ELSE IF Len(b) = 2 THEN
        << b64char(b[1] \div 4), b64char((b[1] % 4) * 16 + b[2] \div 16),
           b64char((b[2] % 16) * 4), "=" >>
    ELSE
        << b64char(b[1] \div 4), b64char((b[1] % 4) * 16 + b[2] \div 16),
           b64char((b[2] % 16) * 4 + b[3] \div 64), b64char(b[3] % 64) >>
        \o b64encode(SubSeq(b, 4, Len(b)))

\* plt.gcf(): the active figure, a new empty one when none is open
gcf(f) == IF f = <<>> THEN <<(<<>>)>> ELSE f

save_plot_as_base64_keep_open(f) ==
    LET open == gcf(f)
    IN  [ figs  |-> open,
          value |-> <<"data:image/png;base64,">> \o b64encode(png(open[Len(open)])) ]

\* the figures left open and the string returned
save_plot_as_base64(f) ==
    LET open == gcf(f)                                  \* plt.savefig, line 40
        image_base64 == b64encode(png(open[Len(open)])) \* lines 40-42
    IN  [ figs  |-> SubSeq(open, 1, Len(open) - 1),     \* plt.close(), line 44
          value |-> <<"data:image/png;base64,">> \o image_base64 ]

InitPlot ==
    /\ figs = <<>>
    /\ exported = <<>>
    /\ drawn = FALSE
    /\ clock = 0
    /\ calls = <<>>
    /\ data = Idle /\ result = Pending
    /\ heap = <<>> /\ properties = None /\ components = <<>>
    /\ lastOp = [op |-> "none"] /\ before = <<>>

\* the caller draws on the active figure (plt.plot, plt.bar)
Draw ==
    /\ \E a \in Artists :
          LET open == gcf(figs)
          IN  /\ Len(open[Len(open)]) < MaxArtists
              /\ figs' = [open EXCEPT ![Len(open)] = Append(@, a)]
    /\ drawn' = TRUE
    /\ UNCHANGED <<exported, clock, calls, analyzerVars, aliasVars>>

\* the caller calls save_plot_as_base64()
Export ==
    /\ Len(exported) < MaxExports
    /\ LET r == save_plot_as_base64(figs)
       IN  /\ figs' = r.figs
           /\ exported' = Append(exported, [value |-> r.value, after_draw |-> drawn])
    /\ drawn' = FALSE
    /\ UNCHANGED <<clock, calls, analyzerVars, aliasVars>>

NextPlot == Draw \/ Export

SpecPlot == InitPlot /\ [][NextPlot]_vars

EmptyCanvasURI == <<"data:image/png;base64,",
                    "i","V","B","O","R","w","0","K","G","g","o","=">>

\* C3: every export returns a string that begins with
\* 'data:image/png;base64,'; the export closes the active figure, so an
\* export that follows an export with no draw in between encodes an empty
\* canvas.
C3_ExportClosesFigure ==
    /\ \A i \in 1..Len(exported) : exported[i].value[1] = "data:image/png;base64,"
    /\ \A i \in 2..Len(exported) :
          ~exported[i].after_draw => exported[i].value = EmptyCanvasURI
    /\ (exported # <<>> /\ ~drawn) => figs = <<>>

C3_Witness ==
    /\ Len(exported) >= 2
    /\ exported[1].after_draw
    /\ exported[1].value # EmptyCanvasURI
    /\ ~exported[2].after_draw
    /\ exported[2].value = EmptyCanvasURI

====
